---- MODULE Spec2Model ----
(***************************************************************************)
(* Model of the URL shortener API (src/index.js, second listing, lines     *)
(* 226-638): the `urls` table with its two UNIQUE constraints, the         *)
(* allocation of short codes (processSingleUrl, generateUniqueCode) and    *)
(* the four HTTP handlers.  Node runs every handler on one thread; a       *)
(* handler gives up control only at an `await` on a store call, so one     *)
(* action of the model is one store call completing together with all the  *)
(* JavaScript that runs until the next store call is issued.               *)
(***************************************************************************)
EXTENDS Integers, Sequences, FiniteSets, TLC

(* ------------------------------ bounds --------------------------------- *)
\* number of HTTP requests that arrive (each request slot is used once)
NumReq == 2
\* number of distinct codes the random generator is allowed to produce
NumCodes == 2
\* number of store calls that may reject with a storage error
MaxFaults == 1
\* number of those requests that may be batch requests
MaxBatchReq == 1

(* ------------------------- program constants --------------------------- *)
CODE_LENGTH == 6
MAX_BATCH_SIZE == 50
maxAttempts == 10
chunkSize == 10
MAX_URL_LENGTH == 2048
MAX_CODE_PARAM == 20
BASE_DOMAIN == "http://localhost:3444"

(* ------------------------------ strings -------------------------------- *)
(* A URL string is kept as: number of leading spaces, body, number of      *)
(* trailing spaces.  `undefined` (an absent query parameter or a hole in   *)
(* the batch array) is the body "undefined".                               *)
Str(pre, body, post) == [pre |-> pre, body |-> body, post |-> post]
Undefined == Str(0, "undefined", 0)

\* number of characters of a body
BodyLen(b) ==
  CASE b = "https://a"    -> 9
    [] b = "https://b"    -> 9
    [] b = "not-a-url"    -> 9
    [] b = "https://max"  -> 2048
    [] b = "https://long" -> 2049
    [] OTHER              -> 0

StrLen(s) == IF s = Undefined THEN 0 ELSE s.pre + BodyLen(s.body) + s.post

\* JavaScript truthiness of a string-or-undefined value
Truthy(s) == s # Undefined /\ StrLen(s) > 0

UrlParsesAny(s) == TRUE
\* new URL(s): the parser strips leading and trailing spaces itself and
\* then needs an absolute URL with a scheme
UrlParses(s) == s.body \in {"https://a", "https://b", "https://max", "https://long"}

TrimNone(s) == s
\* String.prototype.trim
Trim(s) == Str(0, s.body, 0)

(* ------------------------------- codes --------------------------------- *)
(* A code is a sequence of characters.  nanoid draws every character from  *)
(* A-Za-z0-9_- ; the model lets it produce NumCodes different codes.       *)
NoCode == << >>
\* the generator's alphabet by its kinds of character, the two that are not
\* letters or digits first
LastChar == <<"-", "_", "a", "B", "7">>
Code(k) == [j \in 1..CODE_LENGTH |-> IF j = CODE_LENGTH THEN LastChar[k] ELSE "a"]
GenCodes == {Code(k) : k \in 1..NumCodes}
WordOrDash == {"a", "B", "7", "_", "-"}

\* nanoid.nanoid(CODE_LENGTH): the set of values one call may return
generateCode == GenCodes

(* ------------------------------ the store ------------------------------ *)
\* created_at is a logical time: the number of requests that had arrived
Row(u, c) == [original_url |-> u, short_code |-> c, created_at |-> 0, access_count |-> 0]

VARIABLES urls, req, calls, faults, life
vars == <<urls, req, calls, faults, life>>

(* The process.  db and server are the two module globals of lines 264-265: *)
(* db is unset, open (the file is open), ready (the table exists), closing  *)
(* (db.close() was called) or closed; server is unset, listening, closing   *)
(* (server.close() was called) or closed.  shutdown tells that              *)
(* gracefulShutdown has run and exit names the process.exit that ended the  *)
(* process.                                                                 *)
Booting == [proc |-> "running", db |-> "unset", server |-> "unset", shutdown |-> FALSE, exit |-> "none"]
Listening == [Booting EXCEPT !.db = "ready", !.server = "listening"]
\* a handler can take a step: the process runs and the store answers
Serving == life.proc = "running" /\ life.db = "ready"

Procs == 1..NumReq

UrlStored(u) == \E k \in 1..Len(urls) : urls[k].original_url = u
CodeExists(c) == \E k \in 1..Len(urls) : urls[k].short_code = c
\* SELECT short_code FROM urls WHERE original_url = ?
FindByUrl(u) == CHOOSE k \in 1..Len(urls) : urls[k].original_url = u
\* SELECT ... FROM urls WHERE short_code = ?
FindByCodeFirst(c) == 1
FindByCode(c) == CHOOSE k \in 1..Len(urls) : urls[k].short_code = c

\* INSERT is refused when it would break UNIQUE(original_url) or UNIQUE(short_code)
InsertConflictUnchecked(u, c) == FALSE
InsertConflict(u, c) == UrlStored(u) \/ CodeExists(c)


(* --------------------------- processSingleUrl -------------------------- *)
(* One invocation of processSingleUrl.  pc names the store call it waits   *)
(* for: "lookup" (SELECT by original_url), "check" (SELECT by short_code   *)
(* inside generateUniqueCode), "insert" (INSERT), or it is "done" and      *)
(* result is the value the promise resolved with.  gens counts the calls   *)
(* of generateCode and cause records which return or catch produced the    *)
(* result; neither is read by the program.                                 *)
NoResult == [error |-> "unset", originalUrl |-> Undefined, shortUrl |-> << >>, shortCode |-> NoCode]
ErrorResult(msg, u) == [error |-> msg, originalUrl |-> u, shortUrl |-> << >>, shortCode |-> NoCode]
OkResult(u, c) == [error |-> "", originalUrl |-> u, shortUrl |-> <<BASE_DOMAIN, c>>, shortCode |-> c]
IsOk(r) == r.error = ""

NoCall == [pc |-> "none", arg |-> Undefined, originalUrl |-> Undefined, code |-> NoCode,
           attempts |-> 0, gens |-> 0, result |-> NoResult, cause |-> "none"]

\* the call returns: its locals are gone, its promise holds the result
Finish(c, res, why) ==
  [c EXCEPT !.pc = "done", !.code = NoCode, !.attempts = 0, !.gens = 0,
            !.result = res, !.cause = why]

processSingleUrlOffByOne(u) ==
  LET c0 == [NoCall EXCEPT !.arg = u] IN
  IF ~Truthy(u) THEN Finish(c0, ErrorResult("URL is required", Undefined), "validation")
  ELSE IF ~UrlParses(u) THEN Finish(c0, ErrorResult("Invalid URL format", u), "validation")
  ELSE IF StrLen(Trim(u)) >= MAX_URL_LENGTH
       THEN Finish([c0 EXCEPT !.originalUrl = Trim(u)],
                   ErrorResult("URL exceeds maximum length (2048 characters)", Trim(u)),
                   "validation")
  ELSE [c0 EXCEPT !.pc = "lookup", !.originalUrl = Trim(u)]
\* lines 334-357: the synchronous part, up to the first store call
processSingleUrl(u) ==
  LET c0 == [NoCall EXCEPT !.arg = u] IN
  IF ~Truthy(u) THEN Finish(c0, ErrorResult("URL is required", Undefined), "validation")
  ELSE IF ~UrlParses(u) THEN Finish(c0, ErrorResult("Invalid URL format", u), "validation")
  ELSE IF StrLen(Trim(u)) > MAX_URL_LENGTH
       THEN Finish([c0 EXCEPT !.originalUrl = Trim(u)],
                   ErrorResult("URL exceeds maximum length (2048 characters)", Trim(u)),
                   "validation")
  ELSE [c0 EXCEPT !.pc = "lookup", !.originalUrl = Trim(u)]

\* what processSingleUrl accepts
ValidUrl(u) == Truthy(u) /\ UrlParses(u) /\ StrLen(Trim(u)) <= MAX_URL_LENGTH

(* ------------------------------ requests ------------------------------- *)
NoReq == [kind |-> "idle", pc |-> "idle", url |-> Undefined, code |-> NoCode,
          batch |-> << >>, isArray |-> TRUE, i |-> 0, results |-> << >>,
          status |-> 0, message |-> "", result |-> NoResult, location |-> Undefined,
          count |-> 0, lost |-> FALSE, after |-> {}]

Respond(r, st, msg) == [r EXCEPT !.pc = "done", !.status = st, !.message = msg]

\* lines 402-411: the shorten handler once processSingleUrl has resolved
ShortenStatus(result) == 400
ShortenRespond(r, result) ==
  IF ~IsOk(result) THEN Respond(r, ShortenStatus(result), result.error)
  ELSE [Respond(r, 200, "") EXCEPT !.result = result]

ChunkOf(r) == {k \in 1..Len(r.batch) : k > r.i /\ k <= r.i + chunkSize}

\* line 454: Promise.all gives the results of the chunk in the order of its items
ChunkResultsReversed(r, cs) ==
  [j \in 1..Cardinality(ChunkOf(r)) |-> cs[r.i + Cardinality(ChunkOf(r)) + 1 - j].result]
ChunkResults(r, cs) == [j \in 1..Cardinality(ChunkOf(r)) |-> cs[r.i + j].result]

\* lines 452-460: the for loop over the chunks and the final res.json
RECURSIVE BatchLoop(_, _), BatchAwait(_, _)
BatchLoop(r, cs) ==
  IF ~(r.i < Len(r.batch))
  THEN [r |-> [Respond(r, 200, "") EXCEPT !.results = r.results], cs |-> cs]
  ELSE BatchAwait(r, [k \in 1..Len(cs) |->
                        IF k \in ChunkOf(r) THEN processSingleUrl(r.batch[k]) ELSE cs[k]])
\* Promise.all resolves once every call of the chunk has resolved
BatchAwait(r, cs) ==
  IF \A k \in ChunkOf(r) : cs[k].pc = "done"
  THEN BatchLoop([r EXCEPT !.results = @ \o ChunkResults(r, cs), !.i = @ + chunkSize], cs)
  ELSE [r |-> r, cs |-> cs]

\* the caller's continuation after one processSingleUrl promise has resolved
AfterCall(r, cs) ==
  IF r.kind = "shorten" THEN [r |-> ShortenRespond(r, cs[1].result), cs |-> cs]
  ELSE BatchAwait(r, cs)

\* the requests that have been answered (after: those answered before this one arrived)
DoneProcs == {q \in Procs : req[q].status # 0}
\* requests are numbered in the order they arrive
CanStart(p) ==
  /\ life.proc = "running" /\ life.server = "listening"
  /\ req[p].kind = "idle" /\ (IF p = 1 THEN TRUE ELSE req[p - 1].kind # "idle")

(* ------------------------------- inputs -------------------------------- *)
UrlInputs == {Undefined, Str(0, "https://a", 0), Str(1, "https://a", 1), Str(0, "https://b", 1),
              Str(0, "not-a-url", 0), Str(0, "https://long", 0), Str(1, "https://max", 1)}

InitialStores == { << >>, << Row(Str(0, "https://a", 0), Code(1)) >> }

Init ==
  /\ urls \in InitialStores
  /\ req = [p \in Procs |-> NoReq]
  /\ calls = [p \in Procs |-> << >>]
  /\ faults = 0
  /\ life = Listening

(* ------------------------------- shorten ------------------------------- *)
\* GET /api/shorten?url=u, lines 391-402
ShortenStart(p, u) ==
  /\ Serving /\ UNCHANGED life
  /\ CanStart(p)
  /\ LET r0 == [NoReq EXCEPT !.kind = "shorten", !.pc = "await", !.url = u, !.after = DoneProcs] IN
     IF ~Truthy(u)
     THEN /\ req' = [req EXCEPT ![p] = Respond(r0, 400, "URL parameter is required")]
          /\ UNCHANGED calls
     ELSE LET c == processSingleUrl(u) IN
          /\ calls' = [calls EXCEPT ![p] = <<c>>]
          /\ req' = [req EXCEPT ![p] = IF c.pc = "done" THEN ShortenRespond(r0, c.result) ELSE r0]
  /\ UNCHANGED <<urls, faults>>

\* DEFAULT CURRENT_TIMESTAMP of created_at
CURRENT_TIMESTAMP == Cardinality({q \in Procs : req[q].kind # "idle"})

\* a call of processSingleUrl resolves: its caller continues
Resolve(p, i, c) ==
  LET a == AfterCall(req[p], [calls[p] EXCEPT ![i] = c]) IN
  /\ req' = [req EXCEPT ![p] = a.r]
  /\ calls' = [calls EXCEPT ![p] = a.cs]

CallIds == UNION {{<<p, i>> : i \in 1..Len(calls[p])} : p \in Procs}

\* lines 354-369 and 313-315: the SELECT by original_url returns
Lookup(p, i) ==
  LET c == calls[p][i] IN
  /\ Serving /\ UNCHANGED life
  /\ c.pc = "lookup"
  /\ UNCHANGED <<urls, faults>>
  /\ IF UrlStored(c.originalUrl)
     THEN Resolve(p, i, Finish(c, OkResult(c.originalUrl, urls[FindByUrl(c.originalUrl)].short_code), "found"))
     ELSE \E code \in generateCode :
            /\ calls' = [calls EXCEPT ![p][i] = [c EXCEPT !.pc = "check", !.code = code, !.gens = 1]]
            /\ UNCHANGED req


\* lines 315-330 and 372: a SELECT by short_code of generateUniqueCode returns
Check(p, i) ==
  LET c == calls[p][i]
      exists == CodeExists(c.code)
      \* attempts++ closes the loop body; the first SELECT is made before the loop
      attempts == IF c.gens > 1 THEN c.attempts + 1 ELSE c.attempts
  IN
  /\ Serving /\ UNCHANGED life
  /\ c.pc = "check"
  /\ UNCHANGED <<urls, faults>>
  /\ IF exists /\ attempts < maxAttempts
     THEN \E code \in generateCode :
            /\ calls' = [calls EXCEPT ![p][i] =
                           [c EXCEPT !.code = code, !.attempts = attempts, !.gens = @ + 1]]
            /\ UNCHANGED req
     ELSE IF attempts >= maxAttempts
     THEN Resolve(p, i, Finish(c, ErrorResult("Internal Server Error", c.originalUrl), "exhausted"))
     ELSE /\ calls' = [calls EXCEPT ![p][i] =
                         [c EXCEPT !.pc = "insert", !.attempts = 0, !.gens = 0]]
          /\ UNCHANGED req

\* lines 372-387: the INSERT returns
Insert(p, i) ==
  LET c == calls[p][i] IN
  /\ Serving /\ UNCHANGED life
  /\ c.pc = "insert"
  /\ UNCHANGED faults
  /\ IF InsertConflict(c.originalUrl, c.code)
     THEN /\ UNCHANGED urls
          /\ Resolve(p, i, Finish(c, ErrorResult("Internal Server Error", c.originalUrl), "conflict"))
     ELSE /\ urls' = Append(urls, [Row(c.originalUrl, c.code) EXCEPT !.created_at = CURRENT_TIMESTAMP])
          /\ Resolve(p, i, Finish(c, OkResult(c.originalUrl, c.code), "inserted"))

\* lines 384-387: a store call of processSingleUrl rejects with a storage error
StoreErrorRejects(p, i) ==
  LET c == calls[p][i] IN
  /\ Serving /\ UNCHANGED life
  /\ c.pc \in {"lookup", "check", "insert"}
  /\ faults < MaxFaults
  /\ faults' = faults + 1
  /\ UNCHANGED urls
  /\ req' = [req EXCEPT ![p] = Respond(req[p], 500, "An unexpected error occurred")]
  /\ calls' = [calls EXCEPT ![p][i] =
                  Finish(c, ErrorResult("Internal Server Error", c.originalUrl), "fault")]
StoreError(p, i) ==
  LET c == calls[p][i] IN
  /\ Serving /\ UNCHANGED life
  /\ c.pc \in {"lookup", "check", "insert"}
  /\ faults < MaxFaults
  /\ faults' = faults + 1
  /\ UNCHANGED urls
  /\ Resolve(p, i, Finish(c, ErrorResult("Internal Server Error", c.originalUrl), "fault"))

(* -------------------------------- batch -------------------------------- *)
Body(isArray, items) == [isArray |-> isArray, items |-> items]
BatchInputs ==
  { Body(FALSE, << >>),
    Body(TRUE, << >>),
    Body(TRUE, <<Str(0, "https://b", 0), Str(0, "https://b", 0)>>),
    Body(TRUE, <<Str(0, "https://a", 0), Str(0, "not-a-url", 0), Str(0, "https://b", 1)>>),
    \* a missing item and an over-long one
    Body(TRUE, <<Undefined, Str(0, "https://long", 0)>>),
    \* as many items as the cap allows: the same URL closes one chunk and opens the next
    Body(TRUE, [k \in 1..MAX_BATCH_SIZE |-> IF k \in {chunkSize, chunkSize + 1}
                                            THEN Str(0, "https://b", 0)
                                            ELSE Str(0, "not-a-url", 0)]),
    \* one item more than the cap
    Body(TRUE, [k \in 1..(MAX_BATCH_SIZE + 1) |-> Str(0, "https://a", 0)]) }

BatchStartOffByOne(p, body) ==
  /\ Serving /\ UNCHANGED life
  /\ CanStart(p)
  /\ Cardinality({q \in Procs : req[q].kind = "batch"}) < MaxBatchReq
  /\ UNCHANGED <<urls, faults>>
  /\ LET r0 == [NoReq EXCEPT !.kind = "batch", !.pc = "await", !.batch = body.items,
                             !.isArray = body.isArray, !.after = DoneProcs]
     IN
     IF ~body.isArray
     THEN /\ req' = [req EXCEPT ![p] = Respond(r0, 400, "Request body must be an array of URLs")]
          /\ UNCHANGED calls
     ELSE IF Len(body.items) = 0
     THEN /\ req' = [req EXCEPT ![p] = Respond(r0, 400, "At least one URL is required")]
          /\ UNCHANGED calls
     ELSE IF Len(body.items) >= MAX_BATCH_SIZE
     THEN /\ req' = [req EXCEPT ![p] = Respond(r0, 400, "Maximum batch size is 50 URLs")]
          /\ UNCHANGED calls
     ELSE LET a == BatchLoop(r0, [k \in 1..Len(body.items) |-> NoCall]) IN
          /\ req' = [req EXCEPT ![p] = a.r]
          /\ calls' = [calls EXCEPT ![p] = a.cs]
\* POST /api/shorten/batch, lines 422-460
BatchStart(p, body) ==
  /\ Serving /\ UNCHANGED life
  /\ CanStart(p)
  /\ Cardinality({q \in Procs : req[q].kind = "batch"}) < MaxBatchReq
  /\ UNCHANGED <<urls, faults>>
  /\ LET r0 == [NoReq EXCEPT !.kind = "batch", !.pc = "await", !.batch = body.items,
                             !.isArray = body.isArray, !.after = DoneProcs]
     IN
     IF ~body.isArray
     THEN /\ req' = [req EXCEPT ![p] = Respond(r0, 400, "Request body must be an array of URLs")]
          /\ UNCHANGED calls
     ELSE IF Len(body.items) = 0
     THEN /\ req' = [req EXCEPT ![p] = Respond(r0, 400, "At least one URL is required")]
          /\ UNCHANGED calls
     ELSE IF Len(body.items) > MAX_BATCH_SIZE
     THEN /\ req' = [req EXCEPT ![p] = Respond(r0, 400, "Maximum batch size is 50 URLs")]
          /\ UNCHANGED calls
     ELSE LET a == BatchLoop(r0, [k \in 1..Len(body.items) |-> NoCall]) IN
          /\ req' = [req EXCEPT ![p] = a.r]
          /\ calls' = [calls EXCEPT ![p] = a.cs]

(* ------------------------------- redirect ------------------------------ *)
InvalidCodeWordOnly(code) ==
  \/ Len(code) = 0
  \/ Len(code) > MAX_CODE_PARAM
  \/ \E j \in 1..Len(code) : code[j] \notin {"a", "B", "7", "_"}
InvalidCodeNoLength(code) ==
  \/ Len(code) = 0
  \/ \E j \in 1..Len(code) : code[j] \notin WordOrDash
\* lines 476 and 517: !code || code.length > 20 || /[^\w-]/.test(code)
InvalidCode(code) ==
  \/ Len(code) = 0
  \/ Len(code) > MAX_CODE_PARAM
  \/ \E j \in 1..Len(code) : code[j] \notin WordOrDash

CodeInputs == GenCodes \cup { <<"a", "!">>, <<"a">>, [j \in 1..(MAX_CODE_PARAM + 1) |-> "a"] }

\* GET /:code, lines 471-486
RedirectStart(p, code) ==
  /\ Serving /\ UNCHANGED life
  /\ CanStart(p)
  /\ UNCHANGED <<urls, calls, faults>>
  /\ LET r0 == [NoReq EXCEPT !.kind = "redirect", !.pc = "get", !.code = code, !.after = DoneProcs] IN
     req' = [req EXCEPT ![p] = IF InvalidCode(code)
                               THEN Respond(r0, 400, "Invalid short code format")
                               ELSE r0]

RedirectGetAwaited(p) ==
  /\ Serving /\ UNCHANGED life
  /\ req[p].kind = "redirect" /\ req[p].pc = "get"
  /\ UNCHANGED <<urls, calls, faults>>
  /\ req' = [req EXCEPT ![p] =
       IF CodeExists(req[p].code)
       THEN [req[p] EXCEPT !.pc = "update",
                           !.location = urls[FindByCode(req[p].code)].original_url]
       ELSE Respond(req[p], 404, "Short URL not found")]
\* lines 483-501: the SELECT returns; on a hit the UPDATE is issued and not awaited
RedirectGet(p) ==
  /\ Serving /\ UNCHANGED life
  /\ req[p].kind = "redirect" /\ req[p].pc = "get"
  /\ UNCHANGED <<urls, calls, faults>>
  /\ req' = [req EXCEPT ![p] =
       IF CodeExists(req[p].code)
       THEN [req[p] EXCEPT !.pc = "update", !.status = 302,
                           !.location = urls[FindByCode(req[p].code)].original_url]
       ELSE Respond(req[p], 404, "Short URL not found")]

IncrementAccessTwice(code) ==
  [k \in 1..Len(urls) |-> IF urls[k].short_code = code
                          THEN [urls[k] EXCEPT !.access_count = @ + 2]
                          ELSE urls[k]]
IncrementAccessAll(code) ==
  [k \in 1..Len(urls) |-> [urls[k] EXCEPT !.access_count = @ + 1]]
IncrementAccessSetOne(code) ==
  [k \in 1..Len(urls) |-> IF urls[k].short_code = code
                          THEN [urls[k] EXCEPT !.access_count = 1]
                          ELSE urls[k]]
\* UPDATE urls SET access_count = access_count + 1 WHERE short_code = ?
IncrementAccess(code) ==
  [k \in 1..Len(urls) |-> IF urls[k].short_code = code
                          THEN [urls[k] EXCEPT !.access_count = @ + 1]
                          ELSE urls[k]]

\* lines 490-493: the UPDATE runs
UpdateCount(p) ==
  /\ Serving /\ UNCHANGED life
  /\ req[p].kind = "redirect" /\ req[p].pc = "update"
  /\ urls' = IncrementAccess(req[p].code)
  /\ req' = [req EXCEPT ![p].pc = "done"]
  /\ UNCHANGED <<calls, faults>>

\* line 493: the UPDATE rejects; the error is logged
UpdateError(p) ==
  /\ Serving /\ UNCHANGED life
  /\ req[p].kind = "redirect" /\ req[p].pc = "update"
  /\ faults < MaxFaults
  /\ faults' = faults + 1
  /\ req' = [req EXCEPT ![p].pc = "done", ![p].lost = TRUE]
  /\ UNCHANGED <<urls, calls>>

(* -------------------------------- stats -------------------------------- *)
\* GET /api/stats/:code, lines 512-527
StatsStart(p, code) ==
  /\ Serving /\ UNCHANGED life
  /\ CanStart(p)
  /\ UNCHANGED <<urls, calls, faults>>
  /\ LET r0 == [NoReq EXCEPT !.kind = "stats", !.pc = "get", !.code = code, !.after = DoneProcs] IN
     req' = [req EXCEPT ![p] = IF InvalidCode(code)
                               THEN Respond(r0, 400, "Invalid short code format")
                               ELSE r0]

\* lines 524-536: the SELECT returns
StatsGet(p) ==
  /\ Serving /\ UNCHANGED life
  /\ req[p].kind = "stats" /\ req[p].pc = "get"
  /\ UNCHANGED <<urls, calls, faults>>
  /\ req' = [req EXCEPT ![p] =
       IF CodeExists(req[p].code)
       THEN [Respond(req[p], 200, "") EXCEPT !.location = urls[FindByCode(req[p].code)].original_url,
                                             !.count = urls[FindByCode(req[p].code)].access_count]
       ELSE Respond(req[p], 404, "Short URL not found")]

\* lines 502-508 and 537-543: the SELECT of a redirect or stats request rejects
GetError(p) ==
  /\ Serving /\ UNCHANGED life
  /\ req[p].kind \in {"redirect", "stats"} /\ req[p].pc = "get"
  /\ faults < MaxFaults
  /\ faults' = faults + 1
  /\ req' = [req EXCEPT ![p] = Respond(req[p], 500, "An unexpected error occurred")]
  /\ UNCHANGED <<urls, calls>>

(* ---------------------------- specification ---------------------------- *)
Next ==
  \/ \E p \in Procs, u \in UrlInputs : ShortenStart(p, u)
  \/ \E p \in Procs, b \in BatchInputs : BatchStart(p, b)
  \/ \E p \in Procs, c \in CodeInputs : RedirectStart(p, c)
  \/ \E p \in Procs, c \in CodeInputs : StatsStart(p, c)
  \/ \E pi \in CallIds : Lookup(pi[1], pi[2])
  \/ \E pi \in CallIds : Check(pi[1], pi[2])
  \/ \E pi \in CallIds : Insert(pi[1], pi[2])
  \/ \E pi \in CallIds : StoreError(pi[1], pi[2])
  \/ \E p \in Procs : RedirectGet(p)
  \/ \E p \in Procs : UpdateCount(p)
  \/ \E p \in Procs : UpdateError(p)
  \/ \E p \in Procs : StatsGet(p)
  \/ \E p \in Procs : GetError(p)

Spec == Init /\ [][Next]_vars


(* ------------------------------ the process --------------------------- *)
ProcessExit(how) == [life EXCEPT !.proc = "exited", !.exit = how]
Handlers == <<urls, req, calls>>
\* every connection has been answered
AllAnswered == \A p \in Procs : req[p].kind # "idle" => req[p].status # 0

\* line 280: db = await open(...)
OpenDb ==
  /\ life.proc = "running" /\ life.db = "unset"
  /\ life' = [life EXCEPT !.db = "open"]
  /\ UNCHANGED <<Handlers, faults>>

\* lines 286-304: the pragmas, CREATE TABLE and CREATE INDEX have run
CreateTable ==
  /\ life.proc = "running" /\ life.db = "open"
  /\ life' = [life EXCEPT !.db = "ready"]
  /\ UNCHANGED <<Handlers, faults>>

\* lines 305-308: open or one of the exec calls rejects
InitDbError ==
  /\ life.proc = "running" /\ life.db \in {"unset", "open"}
  /\ faults < MaxFaults
  /\ faults' = faults + 1
  /\ life' = ProcessExit("initDb")
  /\ UNCHANGED Handlers

ListenEarly ==
  /\ life.proc = "running" /\ life.server = "unset"
  /\ life' = [life EXCEPT !.server = "listening"]
  /\ UNCHANGED <<Handlers, faults>>
\* lines 618-619: after await initDb(), server = app.listen(...)
Listen ==
  /\ life.proc = "running" /\ life.server = "unset" /\ life.db = "ready"
  /\ life' = [life EXCEPT !.server = "listening"]
  /\ UNCHANGED <<Handlers, faults>>

\* lines 569-613: SIGTERM, SIGINT or an uncaught exception runs gracefulShutdown
Signal ==
  /\ life.proc = "running" /\ ~life.shutdown
  /\ life' = IF life.server # "unset"
             THEN [life EXCEPT !.shutdown = TRUE, !.server = "closing"]
             ELSE [ProcessExit("noServer") EXCEPT !.shutdown = TRUE]
  /\ UNCHANGED <<Handlers, faults>>

\* lines 574-590: the callback of server.close, once the connections have ended
ServerClosed ==
  /\ life.proc = "running" /\ life.server = "closing" /\ AllAnswered
  /\ life' = IF life.db # "unset"
             THEN [life EXCEPT !.server = "closed", !.db = "closing"]
             ELSE [ProcessExit("noDb") EXCEPT !.server = "closed"]
  /\ UNCHANGED <<Handlers, faults>>

\* lines 580-583: db.close() resolves
DbClosed ==
  /\ life.proc = "running" /\ life.db = "closing"
  /\ life' = [ProcessExit("closed") EXCEPT !.db = "closed"]
  /\ UNCHANGED <<Handlers, faults>>

\* lines 584-587: db.close() rejects
DbCloseError ==
  /\ life.proc = "running" /\ life.db = "closing"
  /\ faults < MaxFaults
  /\ faults' = faults + 1
  /\ life' = ProcessExit("closeError")
  /\ UNCHANGED Handlers

\* lines 597-600: the 30 second timer of gracefulShutdown fires
ForcedExit ==
  /\ life.proc = "running" /\ life.shutdown
  /\ life' = ProcessExit("forced")
  /\ UNCHANGED <<Handlers, faults>>

\* the process from its start, serving one URL and one code
ProcessInit ==
  /\ urls \in InitialStores
  /\ req = [p \in Procs |-> NoReq]
  /\ calls = [p \in Procs |-> << >>]
  /\ faults = 0
  /\ life = Booting

ProcessNext ==
  \/ OpenDb
  \/ CreateTable
  \/ InitDbError
  \/ Listen
  \/ Signal
  \/ ServerClosed
  \/ DbClosed
  \/ DbCloseError
  \/ ForcedExit
  \/ \E p \in Procs : ShortenStart(p, Str(0, "https://b", 1))
  \/ \E pi \in CallIds : Lookup(pi[1], pi[2])
  \/ \E pi \in CallIds : Check(pi[1], pi[2])
  \/ \E pi \in CallIds : Insert(pi[1], pi[2])
  \/ \E p \in Procs : RedirectStart(p, Code(1))
  \/ \E p \in Procs : RedirectGet(p)
  \/ \E p \in Procs : UpdateCount(p)

ProcessSpec == ProcessInit /\ [][ProcessNext]_vars

\* the store eventually settles an UPDATE that was issued
UpdateSettles(p) == UpdateCount(p) \/ UpdateError(p)
LiveSpec == Init /\ [][Next]_vars /\ \A p \in Procs : WF_vars(UpdateSettles(p))

(* ------------------------------ properties ----------------------------- *)
\* the input without its surrounding whitespace
Stripped(u) == Str(0, u.body, 0)
RowsFor(u) == {k \in 1..Len(urls) : urls[k].original_url = u}
Shortens == {p \in Procs : req[p].kind = "shorten" /\ Len(calls[p]) = 1}
Batches == {p \in Procs : req[p].kind = "batch" /\ req[p].status = 200}
Concurrent(p, q) == p # q /\ p \notin req[q].after /\ q \notin req[p].after
Unlucky(c) == c.cause \in {"fault", "exhausted"}

\* C1: shorten requests for the same valid URL that overlap in time, none of
\* them hit by a storage error or by exhaustion, are all answered with success
\* and the same shortCode, and exactly one row holds the URL.
C1_ConcurrentConvergence ==
  \A p \in Shortens, q \in Shortens :
    ( /\ Concurrent(p, q)
      /\ req[p].pc = "done" /\ req[q].pc = "done"
      /\ ValidUrl(req[p].url) /\ Stripped(req[p].url) = Stripped(req[q].url)
      /\ ~Unlucky(calls[p][1]) /\ ~Unlucky(calls[q][1]) )
    => /\ req[p].status = 200 /\ req[q].status = 200
       /\ req[p].result.shortCode = req[q].result.shortCode
       /\ Cardinality(RowsFor(Stripped(req[p].url))) = 1

\* C2: when a shorten request for u was answered with a shortCode, exactly one
\* row holds trim(u), and a shorten request that arrives afterwards for the
\* same URL (up to surrounding whitespace) and whose lookup is not hit by a
\* storage error is answered with the same shortCode.
C2_SequentialIdempotence ==
  \A p \in Shortens :
    req[p].status = 200 =>
      /\ Cardinality(RowsFor(Stripped(req[p].url))) = 1
      /\ \A q \in Shortens :
           ( /\ p \in req[q].after
             /\ Stripped(req[q].url) = Stripped(req[p].url)
             /\ req[q].pc = "done"
             /\ calls[q][1].cause # "fault" )
           => /\ req[q].status = 200
              /\ req[q].result.shortCode = req[p].result.shortCode

\* C2 witness: a URL was inserted by one request and then asked for again,
\* with different surrounding whitespace, by a later one
C2_Witness ==
  \E p \in Shortens, q \in Shortens :
    /\ p \in req[q].after
    /\ req[p].status = 200 /\ req[q].status = 200
    /\ calls[p][1].cause = "inserted" /\ calls[q][1].cause = "found"
    /\ req[p].url # req[q].url
    /\ Stripped(req[p].url) = Stripped(req[q].url)

\* C3: no two rows share an original_url and no two rows share a short_code.
C3_StoreUnique ==
  \A j \in 1..Len(urls), k \in 1..Len(urls) :
    j # k => /\ urls[j].original_url # urls[k].original_url
             /\ urls[j].short_code # urls[k].short_code

\* C3 witness: two rows are stored and an INSERT was refused
C3_Witness ==
  /\ Len(urls) >= 2
  /\ \E pi \in CallIds : calls[pi[1]][pi[2]].cause = "conflict"

\* C4: a call whose INSERT was refused for uniqueness still ends with a
\* successful shortCode.
C4_ConflictInvisible ==
  \A pi \in CallIds :
    calls[pi[1]][pi[2]].cause = "conflict" =>
      /\ IsOk(calls[pi[1]][pi[2]].result)
      /\ calls[pi[1]][pi[2]].result.shortCode # NoCode

\* C5: the step on which generateUniqueCode gives up is taken when exactly
\* maxAttempts candidates have been generated and checked.
C5_ExactlyMaxAttempts ==
  [][ \A p \in Procs : \A i \in 1..Len(calls[p]) :
        (calls[p][i].pc = "check" /\ calls'[p][i].cause = "exhausted")
        => calls[p][i].gens = maxAttempts ]_vars

\* C6: a single-URL shorten request that fails validation is answered 4xx, and
\* one that fails by exhaustion or by a storage error is answered 5xx.
C6_ErrorClasses ==
  \A p \in Procs :
    (req[p].kind = "shorten" /\ req[p].pc = "done") =>
      /\ ~ValidUrl(req[p].url) => (req[p].status >= 400 /\ req[p].status <= 499)
      /\ (Len(calls[p]) = 1 /\ Unlucky(calls[p][1]))
           => (req[p].status >= 500 /\ req[p].status <= 599)

\* C7: a shortCode carried by a successful shorten result (single or batch
\* item) for input u names a row whose original_url is trim(u), and every
\* redirect or stats lookup answered for that code carries trim(u).
C7_RoundTrip ==
  \A pi \in CallIds :
    LET c == calls[pi[1]][pi[2]] IN
    (c.pc = "done" /\ IsOk(c.result)) =>
      /\ \E k \in 1..Len(urls) : /\ urls[k].short_code = c.result.shortCode
                                 /\ urls[k].original_url = Stripped(c.arg)
      /\ \A k \in 1..Len(urls) : urls[k].short_code = c.result.shortCode
                                   => urls[k].original_url = Stripped(c.arg)
      /\ \A q \in Procs :
           ( /\ req[q].kind \in {"redirect", "stats"}
             /\ req[q].status \in {200, 302}
             /\ req[q].code = c.result.shortCode )
           => req[q].location = Stripped(c.arg)
      /\ req[pi[1]].kind = "shorten" => req[pi[1]].result = c.result

\* C7 witness: a URL given with surrounding whitespace was inserted and a
\* redirect for the code it was answered with has hit
C7_Witness ==
  \E p \in Shortens, q \in Procs :
    /\ req[p].status = 200 /\ calls[p][1].cause = "inserted"
    /\ req[p].url # Stripped(req[p].url)
    /\ req[q].kind = "redirect" /\ req[q].status = 302
    /\ req[q].code = req[p].result.shortCode
    /\ Len(urls) >= 2

ValidationErrors == {"URL is required", "Invalid URL format",
                     "URL exceeds maximum length (2048 characters)"}

C9_BatchDuplicates ==
  \A p \in Batches :
    \A i \in 1..Len(req[p].batch), j \in 1..Len(req[p].batch) :
      ( /\ i # j
        /\ ValidUrl(req[p].batch[i])
        /\ Stripped(req[p].batch[i]) = Stripped(req[p].batch[j])
        /\ ~Unlucky(calls[p][i]) /\ ~Unlucky(calls[p][j]) )
      => /\ IsOk(req[p].results[i]) /\ IsOk(req[p].results[j])
         /\ req[p].results[i].shortCode = req[p].results[j].shortCode
         /\ Cardinality(RowsFor(Stripped(req[p].batch[i]))) = 1

\* the redirect requests for code c whose lookup hit
Hits(c) == {p \in Procs : req[p].kind = "redirect" /\ req[p].code = c /\ req[p].status = 302}
AccessCount(c) == IF CodeExists(c) THEN urls[FindByCode(c)].access_count ELSE 0
UpdateLost(c) == \E p \in Hits(c) : req[p].lost

\* C10: once k redirect requests for a code have hit, eventually its
\* access_count is at least k, unless one of their UPDATEs was rejected.
C10_AccessCounted ==
  \A c \in GenCodes : \A k \in 1..NumReq :
    (Cardinality(Hits(c)) >= k) ~> (AccessCount(c) >= k \/ UpdateLost(c))

\* C10 witness: two redirects of one code have hit and both were counted
C10_Witness ==
  \E c \in GenCodes : Cardinality(Hits(c)) >= 2 /\ AccessCount(c) >= 2

\* C11: the step on which a redirect's lookup hits sends the 302 to the row's
\* original_url while the UPDATE is still outstanding, and the UPDATE settling
\* afterwards, by success or by rejection, leaves that response as it was.
C11_RedirectDecoupled ==
  [][ \A p \in Procs :
        /\ ( /\ req[p].kind = "redirect" /\ req[p].pc = "get"
             /\ req'[p].pc # "get" /\ req'[p].status # 500
             /\ CodeExists(req[p].code) )
           => /\ req'[p].pc = "update"
              /\ req'[p].status = 302
              /\ \E k \in 1..Len(urls) : /\ urls[k].short_code = req[p].code
                                         /\ req'[p].location = urls[k].original_url
        /\ (req[p].kind = "redirect" /\ req[p].pc = "update")
           => /\ req'[p].status = 302
              /\ req'[p].location = req[p].location ]_vars

\* C11 witness: a redirect was sent and its UPDATE was rejected afterwards
C11_Witness ==
  \E p \in Procs : /\ req[p].kind = "redirect" /\ req[p].lost
                   /\ req[p].status = 302 /\ req[p].location # Undefined

Lookups == {p \in Procs : req[p].kind \in {"redirect", "stats"}}
OutsideAlphabet(code) == \E j \in 1..Len(code) : code[j] \notin WordOrDash
\* answered 400 on arrival, so that no SELECT was ever issued for it
RejectedUnqueried(p) == req[p].pc = "done" /\ req[p].status = 400

\* C12 as claimed: a redirect or stats code with a character outside the
\* alphabet or with a length other than CODE_LENGTH is rejected unqueried.
C12_ExactLength ==
  \A p \in Lookups :
    (OutsideAlphabet(req[p].code) \/ Len(req[p].code) # CODE_LENGTH) => RejectedUnqueried(p)

\* C12 amended: a redirect or stats code with a character outside the
\* alphabet or with more than 20 characters is rejected unqueried.
C12_FormatChecked ==
  \A p \in Lookups :
    (OutsideAlphabet(req[p].code) \/ Len(req[p].code) > 20) => RejectedUnqueried(p)

\* C12 witness: an over-long code and a code with a foreign character were
\* both turned away
C12_Witness ==
  \E p \in Lookups, q \in Lookups :
    /\ Len(req[p].code) > 20 /\ ~OutsideAlphabet(req[p].code) /\ RejectedUnqueried(p)
    /\ OutsideAlphabet(req[q].code) /\ RejectedUnqueried(q)

\* C13: every step keeps every existing row, with its original_url, short_code
\* and created_at; an access_count changes only on the step on which the UPDATE
\* of a redirect that hit that row's code runs, and then by exactly one.
C13_RowsImmutable ==
  [][ /\ Len(urls') >= Len(urls)
      /\ \A k \in 1..Len(urls) :
           /\ urls'[k].original_url = urls[k].original_url
           /\ urls'[k].short_code = urls[k].short_code
           /\ urls'[k].created_at = urls[k].created_at
           /\ urls'[k].access_count # urls[k].access_count
              => /\ urls'[k].access_count = urls[k].access_count + 1
                 /\ \E p \in Procs : /\ req[p].kind = "redirect"
                                     /\ req[p].pc = "update" /\ req'[p].pc = "done"
                                     /\ req[p].status = 302
                                     /\ req[p].code = urls[k].short_code ]_vars

\* C13 witness: after an insert and a counted redirect, one row was counted
\* and the other was not
C13_Witness ==
  /\ Len(urls) = 2
  /\ \E j \in 1..2, k \in 1..2 : urls[j].access_count = 1 /\ urls[k].access_count = 0
  /\ \E pi \in CallIds : calls[pi[1]][pi[2]].cause = "inserted"

Started == {pi \in CallIds : calls[pi[1]][pi[2]].pc # "none"}

\* C14: a well-formed URL of 2048 characters after trimming passes validation
\* and, when its call finds or inserts, is answered with a code whose row holds
\* it; one of 2049 characters is rejected as over-long and no row holds it.
C14_LengthBoundary ==
  /\ \A k \in 1..Len(urls) : StrLen(urls[k].original_url) <= 2048
  /\ \A pi \in Started :
       LET c == calls[pi[1]][pi[2]] IN
       (Truthy(c.arg) /\ UrlParses(c.arg)) =>
         /\ StrLen(Stripped(c.arg)) = 2048 =>
              /\ c.cause # "validation"
              /\ c.cause \in {"found", "inserted"} =>
                   /\ IsOk(c.result)
                   /\ \E k \in 1..Len(urls) : /\ urls[k].original_url = Stripped(c.arg)
                                              /\ urls[k].short_code = c.result.shortCode
         /\ StrLen(Stripped(c.arg)) = 2049 =>
              /\ c.pc = "done" /\ c.cause = "validation"
              /\ c.result.error = "URL exceeds maximum length (2048 characters)"
              /\ RowsFor(Stripped(c.arg)) = {}

\* C14 witness: a URL of 2048 characters inside surrounding spaces was
\* inserted and one of 2049 characters was rejected
C14_Witness ==
  \E pi \in Started, qi \in Started :
    /\ StrLen(Stripped(calls[pi[1]][pi[2]].arg)) = 2048
    /\ StrLen(calls[pi[1]][pi[2]].arg) > 2048
    /\ calls[pi[1]][pi[2]].cause = "inserted"
    /\ StrLen(Stripped(calls[qi[1]][qi[2]].arg)) = 2049
    /\ calls[qi[1]][qi[2]].cause = "validation"

TableExists == life.db \in {"ready", "closing", "closed"}

\* C15: the server is never listening, closing or closed, and no request is
\* ever being handled, unless initDb has opened the file and created the
\* table; when initDb fails the process is gone without having listened or
\* taken a request.
C15_InitBeforeServing ==
  /\ life.server # "unset" => TableExists
  /\ (\E p \in Procs : req[p].kind # "idle") => TableExists
  /\ life.exit = "initDb" =>
       /\ life.proc = "exited" /\ life.server = "unset"
       /\ \A p \in Procs : req[p].kind = "idle"

\* C15 witness: after initialization a request was taken and answered
C15_Witness ==
  /\ life.server = "listening" /\ life.db = "ready"
  /\ \E p \in Procs : req[p].status = 200

\* C16: when the process has exited through gracefulShutdown and the file had
\* been opened, the database has been closed (a rejected db.close() apart),
\* and the database is never closing or closed while the server listens.
C16_ClosedOnEveryExit ==
  /\ ( /\ life.proc = "exited" /\ life.shutdown
       /\ life.db # "unset" /\ life.exit # "closeError" )
     => life.db = "closed"
  /\ life.db \in {"closing", "closed"} => life.server = "closed"

BatchReqs == {p \in Procs : req[p].kind = "batch" /\ req[p].isArray}
OutOfBounds(items) == Len(items) = 0 \/ Len(items) > 50

\* C17: a batch that is empty or longer than 50 is answered 400 on arrival,
\* none of its items is ever handed to processSingleUrl and its arrival leaves
\* the table as it was; a batch of exactly 50 is not rejected and all of its
\* 50 items are handed to processSingleUrl.
C17_BatchBounds ==
  /\ [] \A p \in BatchReqs :
          /\ OutOfBounds(req[p].batch) =>
               /\ req[p].pc = "done" /\ req[p].status = 400
               /\ calls[p] = << >> /\ req[p].results = << >>
          /\ Len(req[p].batch) = 50 =>
               /\ req[p].status # 400
               /\ Len(calls[p]) = 50
               /\ req[p].pc = "done" => (req[p].status = 200 /\ Len(req[p].results) = 50)
  /\ [][ \A p \in Procs :
           ( /\ req[p].kind = "idle" /\ req'[p].kind = "batch"
             /\ OutOfBounds(req'[p].batch) )
           => urls' = urls ]_vars

\* C17 witness: a batch of 51 items has been turned away with 400 while the
\* table holds a row, and none of its items became a call
C17_Witness ==
  \E p \in BatchReqs : /\ Len(req[p].batch) = 51 /\ req[p].status = 400
                       /\ calls[p] = << >> /\ Len(urls) > 0

\* C17, the accepted side: a batch of 50 has been answered 200 in full
C17_Accepted ==
  \E p \in BatchReqs : /\ Len(req[p].batch) = 50 /\ req[p].status = 200
                       /\ \E k \in 1..50 : IsOk(req[p].results[k])

FaultStep == faults' = faults + 1
Touched(p) == req'[p] # req[p] \/ calls'[p] # calls[p]
Answered(r) == r.status # 0
IsErrorResponse(r) == r.pc = "done" /\ r.status >= 400
StoreFailed(p) == req[p].lost \/ \E i \in 1..Len(calls[p]) : calls[p][i].cause = "fault"
FailedNow(p) == {i \in 1..Len(calls[p]) : calls[p][i].pc # "done" /\ calls'[p][i].cause = "fault"}

\* C18 as stated: every request that met a store error and has been answered
\* was answered with an error response.
C18_ErrorResponse ==
  \A p \in Procs : (StoreFailed(p) /\ req[p].pc = "done") => IsErrorResponse(req[p])

\* the step at which a store call of request p rejects
C18_FaultStep(p) ==
  (FaultStep /\ Touched(p)) =>
    /\ urls' = urls /\ life' = life
    /\ \A q \in Procs \ {p} : ~Touched(q)
    /\ req[p].kind \in {"shorten", "stats"} => IsErrorResponse(req'[p])
    /\ (req[p].kind = "redirect" /\ req[p].pc = "get") => IsErrorResponse(req'[p])
    /\ (req[p].kind = "redirect" /\ req[p].pc = "update") =>
         /\ req'[p].status = 302 /\ req'[p].location = req[p].location
         /\ req'[p].pc = "done"
    /\ req[p].kind = "batch" =>
         /\ FailedNow(p) # {}
         /\ \A i \in FailedNow(p) : calls'[p][i].result.error = "Internal Server Error"
         /\ \A i \in 1..Len(calls[p]) :
              calls[p][i].pc \in {"lookup", "check", "insert", "done"} /\ i \notin FailedNow(p)
              => calls'[p][i] = calls[p][i]
         /\ req'[p].status \in {0, 200}

\* C18, amended: a store error is reported once and where it belongs. A
\* shorten, a stats and a redirect whose SELECT rejects are answered with an
\* error response at that step; a batch item whose store call rejects becomes
\* an "Internal Server Error" entry at its position of the 200 list, next to
\* the results of its siblings; a rejected access-count UPDATE leaves the 302
\* already sent as it is. No request is answered twice, the table and the
\* process are untouched by the failing step, and no other request changes.
C18_Contained ==
  /\ [][ \A p \in Procs : C18_FaultStep(p) ]_vars
  /\ [][ \A p \in Procs : Answered(req[p]) =>
           /\ req'[p].status = req[p].status /\ req'[p].message = req[p].message
           /\ req'[p].result = req[p].result /\ req'[p].results = req[p].results
           /\ req'[p].location = req[p].location ]_vars
  /\ [] \A p \in Procs :
          /\ (req[p].kind = "shorten" /\ StoreFailed(p)) => IsErrorResponse(req[p])
          /\ (req[p].kind = "batch" /\ req[p].pc = "done" /\ req[p].isArray /\ StoreFailed(p)) =>
               /\ req[p].status = 200
               /\ Len(req[p].results) = Len(req[p].batch)
               /\ \A i \in 1..Len(calls[p]) : req[p].results[i] = calls[p][i].result
          /\ req[p].lost => (req[p].status = 302 /\ req[p].location # Undefined)

\* C18 witness: a batch has been answered 200 with the error entry of the item
\* whose store call rejected and a successful sibling, and another request that
\* was in flight has been answered with success
C18_Witness ==
  \E p \in Procs, q \in Procs :
    /\ req[p].kind = "batch" /\ req[p].pc = "done" /\ StoreFailed(p)
    /\ \E i \in 1..Len(req[p].results) : IsOk(req[p].results[i])
    /\ q # p /\ req[q].kind = "shorten" /\ req[q].status = 200 /\ p \notin req[q].after

\* C19: generateUniqueCode gives up only on a step whose existence check found
\* the candidate in hand, the last one generated, in the table; a candidate
\* found absent is returned.
C19_NoUsableDiscarded ==
  [][ \A p \in Procs : \A i \in 1..Len(calls[p]) :
        (calls[p][i].pc = "check" /\ calls'[p][i].cause = "exhausted")
        => \E k \in 1..Len(urls) : urls[k].short_code = calls[p][i].code ]_vars

Missing(u) == u = Undefined \/ u.pre + BodyLen(u.body) + u.post = 0
Malformed(u) == u.body = "not-a-url"
TooLong(u) == BodyLen(u.body) > 2048
Invalid(u) == Missing(u) \/ Malformed(u) \/ TooLong(u)
InStore(pc) == pc \in {"lookup", "check", "insert"}

\* C20: a processSingleUrl call whose URL is missing, malformed or longer than
\* 2048 characters after trimming has returned its error on the step it was
\* made: it is never waiting on a store call, it holds no generated code, its
\* result is an error, and the step that made it left the table as it was but
\* for the row of a valid sibling whose INSERT returned on that step. A
\* shorten request without a URL is answered 400 without any call, and no
\* row of the table holds such a URL.
C20_ValidationNoEffect ==
  /\ [] \A p \in Procs :
          /\ \A i \in 1..Len(calls[p]) :
               (calls[p][i].pc # "none" /\ Invalid(calls[p][i].arg)) =>
                 /\ ~InStore(calls[p][i].pc) /\ calls[p][i].pc = "done"
                 /\ calls[p][i].cause = "validation"
                 /\ calls[p][i].code = NoCode /\ calls[p][i].gens = 0
                 /\ ~IsOk(calls[p][i].result)
                 /\ calls[p][i].result.shortCode = NoCode
          /\ (req[p].kind = "shorten" /\ Missing(req[p].url)) =>
               (calls[p] = << >> /\ req[p].status = 400 /\ req[p].pc = "done")
  /\ [] \A k \in 1..Len(urls) : ~Invalid(urls[k].original_url)
  /\ [][ \A p \in Procs : \A i \in 1..Len(calls'[p]) :
           ( /\ Invalid(calls'[p][i].arg) /\ calls'[p][i].pc # "none"
             /\ (Len(calls[p]) < i \/ calls[p][i].pc = "none") )
           => \/ urls' = urls
              \/ \E q \in Procs : \E j \in 1..Len(calls[q]) :
                   /\ calls[q][j].pc = "insert" /\ ~Invalid(calls[q][j].arg)
                   /\ Len(urls') = Len(urls) + 1
                   /\ urls'[Len(urls')].original_url = calls[q][j].originalUrl
                   /\ \A k \in 1..Len(urls) : urls'[k] = urls[k] ]_vars

\* C20 witness: next to a stored mapping, a single shorten and a batch item
\* have both been turned down by validation
C20_Witness ==
  /\ Len(urls) > 0
  /\ \E p \in Procs : /\ req[p].kind = "shorten" /\ Len(calls[p]) = 1
                      /\ Malformed(calls[p][1].arg) /\ calls[p][1].cause = "validation"
  /\ \E p \in Procs : /\ req[p].kind = "batch"
                      /\ \E i \in 1..Len(calls[p]) :
                           TooLong(calls[p][i].arg) /\ calls[p][i].cause = "validation"

StoredCodes == {urls[k].short_code : k \in 1..Len(urls)}
UpdatePending(c) == \E p \in Hits(c) : req[p].pc = "update"
CountOf(c) == (CHOOSE k \in 1..Len(urls) : urls[k].short_code = c)

\* C21: the access_count of every row is a natural number, at most the number
\* of redirect requests for its code whose lookup has hit, and equal to that
\* number when none of their UPDATEs was rejected and none is outstanding; no
\* step makes it smaller.
C21_CounterSound ==
  /\ [] \A k \in 1..Len(urls) :
          LET c == urls[k].short_code IN
          /\ urls[k].access_count \in Nat
          /\ urls[k].access_count <= Cardinality(Hits(c))
          /\ (~UpdateLost(c) /\ ~UpdatePending(c))
               => urls[k].access_count = Cardinality(Hits(c))
  /\ [][ \A k \in 1..Len(urls) :
           /\ Len(urls') >= Len(urls)
           /\ urls'[k].short_code = urls[k].short_code
           /\ urls'[k].access_count >= urls[k].access_count ]_vars

\* C21 witness: two redirects of one code were in flight together, neither
\* answered before the other arrived, and both have been counted
C21_Witness ==
  \E p \in Procs, q \in Procs :
    /\ p # q /\ req[p].kind = "redirect" /\ req[q].kind = "redirect"
    /\ req[p].code = req[q].code /\ req[p].code \in StoredCodes
    /\ req[p].pc = "done" /\ req[q].pc = "done"
    /\ ~req[p].lost /\ ~req[q].lost
    /\ p \notin req[q].after /\ q \notin req[p].after
    /\ urls[CountOf(req[p].code)].access_count = 2

Inserted == {k \in 1..Len(urls) : urls[k].created_at > 0}

\* C22: every code in the table passes the format validation of the redirect
\* and stats endpoints, every row written by a shorten has a code of 6
\* characters of the generator's alphabet, and no redirect or stats request
\* for a code of the table is answered 400.
C22_StoredResolvable ==
  /\ \A k \in 1..Len(urls) : ~InvalidCode(urls[k].short_code)
  /\ \A k \in Inserted :
       /\ Len(urls[k].short_code) = 6
       /\ \A j \in 1..6 : urls[k].short_code[j] \in {"a", "B", "7", "_", "-"}
  /\ \A p \in Procs :
       (req[p].kind \in {"redirect", "stats"} /\ req[p].code \in StoredCodes)
         => req[p].status # 400

\* C22 witness: a shorten has written a row whose code ends in a dash and a
\* redirect for that code has been answered 302
C22_Witness ==
  \E k \in Inserted : \E p \in Procs :
    /\ urls[k].short_code[6] = "-"
    /\ req[p].kind = "redirect" /\ req[p].code = urls[k].short_code
    /\ req[p].status = 302 /\ req[p].location = urls[k].original_url

ChunkNo(i) == (i - 1) \div 10
InFlight(p) == {i \in 1..Len(calls[p]) : calls[p][i].pc \in {"lookup", "check", "insert"}}

\* C23, the ordering alone: at most 10 items of a batch are waiting on the
\* store at once, and an item has been started only if every item of the
\* chunks before its own has produced its result.
C23_ChunkOrder ==
  \A p \in Procs : req[p].kind = "batch" =>
    /\ Cardinality(InFlight(p)) <= 10
    /\ \A i \in 1..Len(calls[p]), k \in 1..Len(calls[p]) :
         (ChunkNo(i) < ChunkNo(k) /\ calls[p][k].pc # "none")
           => (calls[p][i].pc = "done" /\ calls[p][i].result # NoResult)

\* C23: the chunks of a batch are processed one after the other, at most 10
\* items at a time, and a valid URL that stands in two different chunks of an
\* answered batch, neither call hit by a storage error or by exhaustion,
\* carries the same shortCode in both result entries.
C23_ChunkedDuplicates ==
  /\ C23_ChunkOrder
  /\ \A p \in Batches :
       \A i \in 1..Len(req[p].batch), k \in 1..Len(req[p].batch) :
         ( /\ ChunkNo(i) # ChunkNo(k)
           /\ ~Invalid(req[p].batch[i])
           /\ Stripped(req[p].batch[i]) = Stripped(req[p].batch[k])
           /\ ~Unlucky(calls[p][i]) /\ ~Unlucky(calls[p][k]) )
         => /\ req[p].results[i].shortCode # NoCode
            /\ req[p].results[i].shortCode = req[p].results[k].shortCode

====
